---- MODULE Spec2Model ----
(***************************************************************************)
(* A model of loc_analyzer.py: a command-line tool that walks a directory  *)
(* tree, classifies files by extension and counts lines of code per        *)
(* language.                                                               *)
(*                                                                         *)
(* Python strings are sequences of one-character strings, so that lower(), *)
(* strip(), startswith(), os.path.splitext(), os.path.basename() and       *)
(* os.path.join() are modelled by what they do to the characters.          *)
(***************************************************************************)
EXTENDS Integers, Sequences, FiniteSets, TLC

\* Python's None (a value no string of characters equals).
None == <<"None">>

----------------------------------------------------------------------------
\* Bounds of the model.

\* Largest number of characters of a file given to count_loc_in_file alone.
MaxFileLen == 5
\* Largest number of files in the whole tree.
MaxFiles == 2

----------------------------------------------------------------------------
\* Configuration (src/loc_analyzer.py lines 10-39).

LANGUAGE_DEFINITIONS ==
    { [ext |-> <<".", "p", "y">>, info |-> <<"Python", <<"#">>>>],
      [ext |-> <<".", "j", "a", "v", "a">>, info |-> <<"Java", <<"/", "/">>>>],
      [ext |-> <<".", "j", "s">>, info |-> <<"JavaScript", <<"/", "/">>>>],
      [ext |-> <<".", "c">>, info |-> <<"C", <<"/", "/">>>>],
      [ext |-> <<".", "c", "p", "p">>, info |-> <<"C++", <<"/", "/">>>>],
      [ext |-> <<".", "h">>, info |-> <<"C/C++ Header", <<"/", "/">>>>],
      [ext |-> <<".", "c", "s">>, info |-> <<"C#", <<"/", "/">>>>],
      [ext |-> <<".", "r", "b">>, info |-> <<"Ruby", <<"#">>>>],
      [ext |-> <<".", "g", "o">>, info |-> <<"Go", <<"/", "/">>>>],
      [ext |-> <<".", "r", "s">>, info |-> <<"Rust", <<"/", "/">>>>],
      [ext |-> <<".", "h", "t", "m", "l">>, info |-> <<"HTML", None>>],
      [ext |-> <<".", "c", "s", "s">>, info |-> <<"CSS", None>>],
      [ext |-> <<".", "p", "h", "p">>, info |-> <<"PHP", <<"/", "/">>>>],
      [ext |-> <<".", "s", "w", "i", "f", "t">>, info |-> <<"Swift", <<"/", "/">>>>],
      [ext |-> <<".", "k", "t">>, info |-> <<"Kotlin", <<"/", "/">>>>],
      [ext |-> <<".", "t", "s">>, info |-> <<"TypeScript", <<"/", "/">>>>],
      [ext |-> <<".", "s", "c", "a", "l", "a">>, info |-> <<"Scala", <<"/", "/">>>>],
      [ext |-> <<".", "p", "l">>, info |-> <<"Perl", <<"#">>>>],
      [ext |-> <<".", "l", "u", "a">>, info |-> <<"Lua", <<"-", "-">>>>],
      [ext |-> <<".", "r">>, info |-> <<"R", <<"#">>>>],
      [ext |-> <<".", "s", "h">>, info |-> <<"Shell Script", <<"#">>>>],
      [ext |-> <<".", "p", "s", "1">>, info |-> <<"PowerShell", <<"#">>>>] }

DEFAULT_IGNORE_DIRS ==
    { <<".", "g", "i", "t">>,
      <<"v", "e", "n", "v">>,
      <<"n", "o", "d", "e", "_", "m", "o", "d", "u", "l", "e", "s">>,
      <<"_", "_", "p", "y", "c", "a", "c", "h", "e", "_", "_">>,
      <<".", "v", "s", "c", "o", "d", "e">>,
      <<".", "i", "d", "e", "a">>,
      <<"b", "u", "i", "l", "d">>,
      <<"d", "i", "s", "t">>,
      <<"t", "a", "r", "g", "e", "t">>,
      <<".", "v", "e", "n", "v">>,
      <<".", "n", "e", "x", "t">> }

DEFAULT_IGNORE_FILES ==
    { <<"L", "I", "C", "E", "N", "S", "E">>,
      <<"R", "E", "A", "D", "M", "E", ".", "m", "d">> }

DEFAULT_IGNORE_EXTENSIONS ==
    { <<".", "l", "o", "g">>,
      <<".", "t", "m", "p">>,
      <<".", "b", "a", "k">>,
      <<".", "s", "w", "p">>,
      <<".", "m", "a", "p">>,
      <<".", "m", "i", "n", ".", "j", "s">>,
      <<".", "m", "i", "n", ".", "c", "s", "s">> }

----------------------------------------------------------------------------
\* Python's string and path primitives.

UpperCase ==
    <<"A", "B", "C", "D", "E", "F", "G", "H", "I", "J", "K", "L", "M",
      "N", "O", "P", "Q", "R", "S", "T", "U", "V", "W", "X", "Y", "Z">>

LowerCase ==
    <<"a", "b", "c", "d", "e", "f", "g", "h", "i", "j", "k", "l", "m",
      "n", "o", "p", "q", "r", "s", "t", "u", "v", "w", "x", "y", "z">>

\* The characters str.strip() removes.
Whitespace == {" ", "\t", "\n", "\r"}

\* str.lower() on one character.
LowerMap ==
    [c \in {UpperCase[i] : i \in 1..Len(UpperCase)} |->
        LowerCase[CHOOSE i \in 1..Len(UpperCase) : UpperCase[i] = c]]

LowerChar(c) == IF c \in DOMAIN LowerMap THEN LowerMap[c] ELSE c

\* str.lower()
RECURSIVE lower(_)
lower(s) ==
    IF s = <<>> THEN <<>> ELSE <<LowerChar(Head(s))>> \o lower(Tail(s))

\* str.rfind(c) for a single character, 1-based; 0 when c does not occur.
rfind(s, c) ==
    LET found == {i \in 1..Len(s) : s[i] = c}
    IN  IF found = {} THEN 0 ELSE CHOOSE i \in found : \A j \in found : j <= i

\* str.lstrip()
RECURSIVE lstrip(_)
lstrip(s) ==
    IF s # <<>> /\ Head(s) \in Whitespace THEN lstrip(Tail(s)) ELSE s

\* str.rstrip()
RECURSIVE rstrip(_)
rstrip(s) ==
    IF s # <<>> /\ s[Len(s)] \in Whitespace
    THEN rstrip(SubSeq(s, 1, Len(s) - 1))
    ELSE s

\* str.strip()
strip(s) == rstrip(lstrip(s))

\* str.startswith(prefix)
startswith(s, prefix) ==
    /\ Len(prefix) <= Len(s)
    /\ SubSeq(s, 1, Len(prefix)) = prefix

\* os.path.join(a, b) for a relative b.
join(a, b) ==
    IF a = <<>> \/ a[Len(a)] = "/" THEN a \o b ELSE a \o <<"/">> \o b

\* os.path.basename(p)
basename(p) == SubSeq(p, rfind(p, "/") + 1, Len(p))

\* os.path.splitext(p): <<root, ext>>.  The extension starts at the last dot
\* of the last path component, unless that component has only dots before it.
splitext(p) ==
    LET sepIndex == rfind(p, "/")
        dotIndex == rfind(p, ".")
    IN  IF /\ dotIndex > sepIndex
           /\ \E k \in (sepIndex + 1)..(dotIndex - 1) : p[k] # "."
        THEN <<SubSeq(p, 1, dotIndex - 1), SubSeq(p, dotIndex, Len(p))>>
        ELSE <<p, <<>>>>

\* Iterating over a text file: the lines, each with its line terminator.
RECURSIVE readlines(_)
readlines(content) ==
    IF content = <<>> THEN <<>>
    ELSE LET ends == {i \in 1..Len(content) : content[i] = "\n"}
             nl == IF ends = {} THEN Len(content)
                   ELSE CHOOSE i \in ends : \A j \in ends : i <= j
         IN  <<SubSeq(content, 1, nl)>> \o readlines(SubSeq(content, nl + 1, Len(content)))

----------------------------------------------------------------------------
\* The state of one run of the program.

VARIABLES
    pc,                     \* where main is: "main", "walk", "exit"; or "call", "returned"
    fs,                     \* the file system below the target (never written)
    target_dir,             \* main: the target path given or entered
    ignore_dirs,            \* analyze_directory's parameters
    ignore_files,
    ignore_extensions,
    stack,                  \* os.walk: the directories still to be yielded
    root,                   \* os.walk: the directory yielded last
    dirs,                   \* os.walk: its sub-directories, after pruning
    files,                  \* os.walk: its files the loop has not reached yet
    loc_stats,              \* analyze_directory: <<language, lines>> in insertion order
    total_files_processed,
    total_loc_overall,
    stdout,                 \* what was printed to standard output
    stderr,                 \* what was printed to standard error
    exit_code,              \* <<the exit status of the process>>; <<>> while it runs
    visited,                \* history: the file paths the loop of line 102 has reached
    counted,                \* history: <<file path, file_loc>> of each count_loc_in_file call
    arg_file,               \* count_loc_in_file called alone: the file,
    arg_prefix,             \*   the comment prefix,
    ret_loc                 \*   and what it returned

vars == <<pc, fs, target_dir, ignore_dirs, ignore_files, ignore_extensions,
          stack, root, dirs, files, loc_stats, total_files_processed,
          total_loc_overall, stdout, stderr, exit_code, visited, counted,
          arg_file, arg_prefix, ret_loc>>

----------------------------------------------------------------------------
\* The file system: fs.root is the path of the target directory, fs.dirs
\* are the sub-directories in listing order (path, parent's path, name),
\* fs.files are the files (path, directory's path, name, content, and where
\* reading them fails).

\* failAt of a file that can be read to its end.
NoFail == -1

\* os.path.isdir(path)
isdir(path) == path = fs.root \/ \E i \in 1..Len(fs.dirs) : fs.dirs[i].path = path

\* os.scandir(top), as os.walk splits it: the names of the sub-directories,
\* in listing order, and of the other entries.
ListDirs(top) ==
    LET below == SelectSeq(fs.dirs, LAMBDA d : d.parent = top)
    IN  [i \in 1..Len(below) |-> below[i].name]

ListFiles(top) == {f.name : f \in {g \in fs.files : g.dir = top}}

\* open(file_path): the file behind a path.
OpenFile(file_path) == CHOOSE f \in fs.files : f.path = file_path

----------------------------------------------------------------------------
\* Helper functions (src/loc_analyzer.py lines 43-79).

get_language_and_comment_prefix(file_path) ==
    LET ext == splitext(file_path)[2]
        known == {d \in LANGUAGE_DEFINITIONS : d.ext = lower(ext)}
    IN  IF known # {} THEN (CHOOSE d \in known : TRUE).info ELSE None

\* Python's truth value of a comment prefix: None and "" are false.
Truthy(comment_prefix) == comment_prefix # None /\ comment_prefix # <<>>

\* A slip in lines 54-61: the prefix is looked for in the line as read.
CountsLine_Unstripped(line, comment_prefix) ==
    LET stripped_line == strip(line)
    IN  /\ stripped_line # <<>>
        /\ ~(Truthy(comment_prefix) /\ startswith(line, comment_prefix))

\* Lines 54-61: whether the loop body adds the line to loc.
CountsLine(line, comment_prefix) ==
    LET stripped_line == strip(line)
    IN  /\ stripped_line # <<>>
        /\ ~(Truthy(comment_prefix) /\ startswith(stripped_line, comment_prefix))

\* Lines 52-61: open the file and run the loop over its lines.  Opening
\* (nread = 0) or the read after nread lines raises when failAt = nread.
RECURSIVE ReadLoop(_, _, _, _, _)
ReadLoop(lines, nread, failAt, comment_prefix, loc) ==
    IF failAt = nread THEN [raised |-> TRUE, loc |-> loc]
    ELSE IF lines = <<>> THEN [raised |-> FALSE, loc |-> loc]
    ELSE ReadLoop(Tail(lines), nread + 1, failAt, comment_prefix,
                  IF CountsLine(Head(lines), comment_prefix) THEN loc + 1 ELSE loc)

\* A slip in lines 62-65: the lines counted before the failure are returned.
Returned_Partial(r) == r.loc

\* Lines 62-65: what the function returns after the try block ended as r.
Returned(r) == IF r.raised THEN 0 ELSE r.loc

\* Line 63: what the except clause prints, and where.
Warn(r, file_path) ==
    IF r.raised
    THEN [stdout |-> <<<<"Warning", file_path>>>>, stderr |-> <<>>]
    ELSE [stdout |-> <<>>, stderr |-> <<>>]

\* count_loc_in_file(file_path, comment_prefix), f being the file behind
\* file_path: the value returned and the lines printed.
count_loc_in_file(f, comment_prefix) ==
    LET r == ReadLoop(readlines(f.content), 0, f.failAt, comment_prefix, 0)
    IN  [ret |-> Returned(r), out |-> Warn(r, f.path)]

\* A slip in line 73: the directory name is compared as written.
should_ignore_ExactDirName(path, i_dirs, i_files, i_extensions) ==
    LET path_name == basename(path)
        ext == splitext(path_name)[2]
    IN  IF isdir(path)
        THEN path_name \in i_dirs
        ELSE \/ path_name \in i_files
             \/ lower(ext) \in i_extensions

\* A slip in line 77: the extension is compared as written.
should_ignore_ExactExtension(path, i_dirs, i_files, i_extensions) ==
    LET path_name == basename(path)
        ext == splitext(path_name)[2]
    IN  IF isdir(path)
        THEN lower(path_name) \in i_dirs
        ELSE \/ path_name \in i_files
             \/ ext \in i_extensions

should_ignore(path, i_dirs, i_files, i_extensions) ==
    LET path_name == basename(path)
        ext == splitext(path_name)[2]
    IN  IF isdir(path)
        THEN lower(path_name) \in i_dirs
        ELSE \/ path_name \in i_files
             \/ lower(ext) \in i_extensions

----------------------------------------------------------------------------
\* Core logic and reporting (src/loc_analyzer.py lines 83-142).

Languages(stats) == {stats[i][1] : i \in 1..Len(stats)}

\* A slip in line 114: a count of zero is added too.
Contributes_AnyCount(file_loc) == file_loc >= 0

\* Line 114: whether a file's count is added.
Contributes(file_loc) == file_loc > 0

\* Line 115: loc_stats[language_name] += file_loc on a defaultdict(int).
AddToStats(stats, language_name, file_loc) ==
    IF language_name \in Languages(stats)
    THEN [i \in 1..Len(stats) |->
            IF stats[i][1] = language_name
            THEN <<language_name, stats[i][2] + file_loc>>
            ELSE stats[i]]
    ELSE Append(stats, <<language_name, file_loc>>)

\* A slip in line 116: the total counts files, not lines.
AddToTotal_CountsFiles(total, file_loc) == total + 1

\* Line 116: total_loc_overall += file_loc
AddToTotal(total, file_loc) == total + file_loc

\* Line 133: sorted(loc_stats.items(), key=count, reverse=True), a stable sort.
RECURSIVE sorted_stats(_)
sorted_stats(stats) ==
    IF stats = <<>> THEN <<>>
    ELSE LET rest == sorted_stats(SubSeq(stats, 1, Len(stats) - 1))
             item == stats[Len(stats)]
             ahead == SelectSeq(rest, LAMBDA x : x[2] >= item[2])
             behind == SelectSeq(rest, LAMBDA x : x[2] < item[2])
         IN  ahead \o <<item>> \o behind

\* print_report: the lines it prints.
print_report(stats, n_files, total) ==
    IF stats = <<>>
    THEN << <<"ReportHeader", <<>>>>, <<"NoSourceFound", <<>>>> >>
    ELSE << <<"ReportHeader", <<>>>>, <<"Table", sorted_stats(stats)>>,
            <<"Total", total>>, <<"FilesProcessed", n_files>>,
            <<"ReportEnd", <<>>>> >>

----------------------------------------------------------------------------
\* The inputs of a run: file systems, command lines and typed answers.

proj == <<"p", "r", "o", "j">>
build == <<"b", "u", "i", "l", "d">>
Build == <<"B", "u", "i", "l", "d">>
src == <<"s", "r", "c">>
missing == <<"m", "i", "s", "s", "i", "n", "g">>

RootNames == {proj, build}

\* The layouts of the sub-directories: the name of each and its parent (0 is
\* the target, d is sub-directory d), in listing order.
Layouts ==
    { <<>>,
      << [name |-> src, parent |-> 0] >>,
      << [name |-> Build, parent |-> 0] >>,
      << [name |-> Build, parent |-> 0], [name |-> src, parent |-> 0] >>,
      << [name |-> Build, parent |-> 0], [name |-> src, parent |-> 1] >> }

FileKinds ==
    { [name |-> <<"a", ".", "p", "y">>,
       content |-> <<"x", "\n", "x", "\n", "x", "\n">>, failAt |-> NoFail],
      [name |-> <<"a", ".", "m", "i", "n", ".", "j", "s">>,
       content |-> <<"x", "\n">>, failAt |-> NoFail],
      [name |-> <<"b", ".", "H", "T", "M", "L">>,
       content |-> <<"#", "c", "\n", "\n", "x", "\n">>, failAt |-> NoFail],
      [name |-> <<"c", ".", "p", "y">>,
       content |-> <<" ", "\n", "#", "c", "\n">>, failAt |-> NoFail],
      [name |-> <<"d", ".", "p", "y">>,
       content |-> <<"x", "\n", "x", "\n">>, failAt |-> 1],
      [name |-> <<"e", ".", "j", "s">>,
       content |-> <<"x", "\n">>, failAt |-> 0],
      [name |-> <<"M", "a", "k", "e", "f", "i", "l", "e">>,
       content |-> <<"x", "\n">>, failAt |-> NoFail] }

\* The sets of at most k files in directories 0..n, no two of one directory
\* with the same name.
RECURSIVE FileSets(_, _)
FileSets(n, k) ==
    IF k = 0 THEN {{}}
    ELSE LET smaller == FileSets(n, k - 1)
         IN  smaller \cup
             {t[1] \cup {[dir |-> t[2], kind |-> t[3]]} :
                t \in {u \in smaller \X (0..n) \X FileKinds :
                         \A f \in u[1] : ~(f.dir = u[2] /\ f.kind.name = u[3].name)}}

RECURSIVE PathIn(_, _, _)
PathIn(rootname, layout, d) ==
    IF d = 0 THEN rootname
    ELSE join(PathIn(rootname, layout, layout[d].parent), layout[d].name)

MakeFs(rootname, layout, fileset) ==
    [root  |-> rootname,
     dirs  |-> [d \in 1..Len(layout) |->
                  [path |-> PathIn(rootname, layout, d),
                   parent |-> PathIn(rootname, layout, layout[d].parent),
                   name |-> layout[d].name]],
     files |-> {[path |-> join(PathIn(rootname, layout, f.dir), f.kind.name),
                 dir |-> PathIn(rootname, layout, f.dir),
                 name |-> f.kind.name,
                 content |-> f.kind.content,
                 failAt |-> f.kind.failAt] : f \in fileset}]

FileSystems ==
    {MakeFs(t[1], t[2], t[3]) :
       t \in UNION {RootNames \X {l} \X FileSets(Len(l), MaxFiles) : l \in Layouts}}

\* What the user may add on the command line (--ignore-dirs, --ignore-files,
\* --ignore-exts), each a list.
UserRules ==
    { [ignore_dirs |-> <<>>, ignore_files |-> <<>>, ignore_exts |-> <<>>],
      [ignore_dirs |-> << <<"S", "r", "c">> >>,
       ignore_files |-> << <<"a", ".", "p", "y">> >>,
       ignore_exts |-> << <<".", "P", "Y">>, <<".", "h", "t", "m", "l">> >>] }

\* The positional argument: absent, the target of the file system, or a path
\* that does not exist.
TargetArgs == {None, fs.root, missing}

\* What the user may type at the prompt.
TypedLines == {<<" ">> \o fs.root \o <<" ">>, missing, <<>>}

Range(s) == {s[i] : i \in 1..Len(s)}

----------------------------------------------------------------------------
\* The program.

Init ==
    /\ pc = "main"
    /\ fs \in FileSystems
    /\ target_dir = None
    /\ ignore_dirs = {}
    /\ ignore_files = {}
    /\ ignore_extensions = {}
    /\ stack = <<>>
    /\ root = <<>>
    /\ dirs = <<>>
    /\ files = {}
    /\ loc_stats = <<>>
    /\ total_files_processed = 0
    /\ total_loc_overall = 0
    /\ stdout = <<>>
    /\ stderr = <<>>
    /\ exit_code = <<>>
    /\ visited = {}
    /\ counted = {}
    /\ arg_file = <<>>
    /\ arg_prefix = None
    /\ ret_loc = 0

\* Lines 189-191: the ignore sets main passes on.
current_ignore_dirs(given) == DEFAULT_IGNORE_DIRS \cup {lower(d) : d \in Range(given)}
current_ignore_files(given) == DEFAULT_IGNORE_FILES \cup Range(given)
current_ignore_extensions(given) == DEFAULT_IGNORE_EXTENSIONS \cup Range(given)

\* Lines 184-186: what main does with a target that is no directory.
InvalidTargetExit == 0

\* main, lines 178-209, up to the first directory of the walk: the
\* arguments, the prompt, the check of the target, the merge of the ignore
\* sets, the configuration summary, and analyze_directory's lines 85-89.
Main_Begin ==
    /\ pc = "main"
    /\ \E target_directory \in TargetArgs, given \in UserRules, typed \in TypedLines :
         LET prompted == target_directory = None \/ target_directory = <<>>
             target == IF prompted THEN strip(typed) ELSE target_directory
             asked == IF prompted THEN << <<"Prompt", <<>>>> >> ELSE <<>>
         IN  /\ target_dir' = target
             /\ IF ~isdir(target)
                THEN /\ stdout' = asked \o << <<"Error", target>> >>
                     /\ pc' = "exit"
                     /\ exit_code' = <<InvalidTargetExit>>
                     /\ UNCHANGED <<ignore_dirs, ignore_files, ignore_extensions, stack>>
                ELSE /\ ignore_dirs' = current_ignore_dirs(given.ignore_dirs)
                     /\ ignore_files' = current_ignore_files(given.ignore_files)
                     /\ ignore_extensions' = current_ignore_extensions(given.ignore_exts)
                     /\ stdout' = asked \o << <<"Configuration", target>>,
                                              <<"Starting", target>> >>
                     /\ stack' = <<target>>
                     /\ pc' = "walk"
                     /\ UNCHANGED exit_code
    /\ UNCHANGED <<fs, root, dirs, files, loc_stats, total_files_processed,
                   total_loc_overall, stderr, visited, counted,
                   arg_file, arg_prefix, ret_loc>>

\* os.walk: the directories still to be yielded once the body of the loop of
\* line 91 has ended: the sub-directories left in dirs come first.
Pending == [i \in 1..Len(dirs) |-> join(root, dirs[i])] \o stack

\* Lines 91-100: os.walk yields the next directory; its ignored
\* sub-directories are removed from dirs; the progress line is printed.
Walk_Directory ==
    /\ pc = "walk"
    /\ files = {}
    /\ Pending # <<>>
    /\ LET top == Head(Pending)
       IN  /\ root' = top
           /\ stack' = Tail(Pending)
           /\ dirs' = SelectSeq(ListDirs(top),
                        LAMBDA d : ~should_ignore(join(top, d), ignore_dirs,
                                                  ignore_files, ignore_extensions))
           /\ files' = ListFiles(top)
           /\ stdout' = Append(stdout, <<"Analyzing", top>>)
    /\ UNCHANGED <<pc, fs, target_dir, ignore_dirs, ignore_files, ignore_extensions,
                   loc_stats, total_files_processed, total_loc_overall, stderr,
                   exit_code, visited, counted, arg_file, arg_prefix, ret_loc>>

\* Lines 102-117: the body of the loop over the files, for one file.
Walk_File ==
    /\ pc = "walk"
    /\ \E file_name \in files :
         LET file_path == join(root, file_name)
         IN  /\ files' = files \ {file_name}
             /\ visited' = visited \cup {file_path}
             /\ IF should_ignore(file_path, ignore_dirs, ignore_files, ignore_extensions)
                THEN UNCHANGED <<counted, stdout, stderr, loc_stats,
                                 total_loc_overall, total_files_processed>>
                ELSE \E lang_info \in {get_language_and_comment_prefix(file_path)} :
                       IF lang_info = None
                       THEN UNCHANGED <<counted, stdout, stderr, loc_stats,
                                        total_loc_overall, total_files_processed>>
                       ELSE \E r \in {count_loc_in_file(OpenFile(file_path), lang_info[2])} :
                              /\ counted' = counted \cup {<<file_path, r.ret>>}
                              /\ stdout' = stdout \o r.out.stdout
                              /\ stderr' = stderr \o r.out.stderr
                              /\ IF Contributes(r.ret)
                                 THEN /\ loc_stats' = AddToStats(loc_stats, lang_info[1], r.ret)
                                      /\ total_loc_overall' =
                                            AddToTotal(total_loc_overall, r.ret)
                                      /\ total_files_processed' = total_files_processed + 1
                                 ELSE UNCHANGED <<loc_stats, total_loc_overall,
                                                  total_files_processed>>
    /\ UNCHANGED <<pc, fs, target_dir, ignore_dirs, ignore_files, ignore_extensions,
                   stack, root, dirs, exit_code, arg_file, arg_prefix, ret_loc>>

\* Lines 121 and 210: the walk has ended; analyze_directory returns, main
\* prints the report and returns, and the process exits.
Main_Report ==
    /\ pc = "walk"
    /\ files = {}
    /\ Pending = <<>>
    /\ stdout' = stdout \o print_report(loc_stats, total_files_processed,
                                        total_loc_overall)
    /\ dirs' = <<>>
    /\ pc' = "exit"
    /\ exit_code' = <<0>>
    /\ UNCHANGED <<fs, target_dir, ignore_dirs, ignore_files, ignore_extensions,
                   stack, root, files, loc_stats, total_files_processed,
                   total_loc_overall, stderr, visited, counted,
                   arg_file, arg_prefix, ret_loc>>

Next == Main_Begin \/ Walk_Directory \/ Walk_File \/ Main_Report

Spec == Init /\ [][Next]_vars

----------------------------------------------------------------------------
\* count_loc_in_file called alone, on every file of at most MaxFileLen
\* characters and every comment prefix of the language definitions.

FileChars == {" ", "\n", "#", "/", "-", "x"}

FileContents == UNION {[1..n -> FileChars] : n \in 0..MaxFileLen}

CommentPrefixes == {d.info[2] : d \in LANGUAGE_DEFINITIONS}

InitCount ==
    /\ pc = "call"
    /\ arg_file \in FileContents
    /\ arg_prefix \in CommentPrefixes
    /\ ret_loc = 0
    /\ fs = [root |-> <<>>, dirs |-> <<>>, files |-> {}]
    /\ target_dir = None
    /\ ignore_dirs = {}
    /\ ignore_files = {}
    /\ ignore_extensions = {}
    /\ stack = <<>>
    /\ root = <<>>
    /\ dirs = <<>>
    /\ files = {}
    /\ loc_stats = <<>>
    /\ total_files_processed = 0
    /\ total_loc_overall = 0
    /\ stdout = <<>>
    /\ stderr = <<>>
    /\ exit_code = <<>>
    /\ visited = {}
    /\ counted = {}

Count_Call ==
    /\ pc = "call"
    /\ LET r == count_loc_in_file([path |-> <<"f">>, content |-> arg_file,
                                   failAt |-> NoFail], arg_prefix)
       IN  /\ ret_loc' = r.ret
           /\ stdout' = stdout \o r.out.stdout
           /\ stderr' = stderr \o r.out.stderr
    /\ pc' = "returned"
    /\ UNCHANGED <<fs, target_dir, ignore_dirs, ignore_files, ignore_extensions,
                   stack, root, dirs, files, loc_stats, total_files_processed,
                   total_loc_overall, exit_code, visited, counted,
                   arg_file, arg_prefix>>

NextCount == Count_Call

SpecCount == InitCount /\ [][NextCount]_vars

----------------------------------------------------------------------------
\* What the properties below speak of.

RECURSIVE SumStats(_)
SumStats(stats) ==
    IF stats = <<>> THEN 0 ELSE Head(stats)[2] + SumStats(Tail(stats))

\* The sum of the counts of a set of <<file path, count>>.
RECURSIVE SumCounts(_)
SumCounts(S) ==
    IF S = {} THEN 0
    ELSE LET x == CHOOSE y \in S : TRUE
         IN  x[2] + SumCounts(S \ {x})

CountedPaths == {c[1] : c \in counted}

Printed(out, what) == {i \in 1..Len(out) : out[i][1] = what}

\* The lines of a text, each as the position of its first character.
LineStarts(text) == {p \in 1..Len(text) : p = 1 \/ text[p - 1] = "\n"}

\* The positions of the characters of the line starting at p that are not
\* whitespace.
Inked(text, p) ==
    {q \in p..Len(text) :
        /\ text[q] \notin Whitespace
        /\ \A k \in p..(q - 1) : text[k] # "\n"}

Smallest(S) == CHOOSE x \in S : \A y \in S : x <= y
Largest(S) == CHOOSE x \in S : \A y \in S : x >= y

\* The line starting at p, trimmed, starts with the marker.
MarkedAt(text, p, marker) ==
    LET first == Smallest(Inked(text, p))
        last == Largest(Inked(text, p))
    IN  \A k \in 1..Len(marker) :
            first + k - 1 <= last /\ text[first + k - 1] = marker[k]

\* The lines of code of a text: the lines that are not blank and, with a
\* marker, whose trimmed content does not start with it.
CodeLines(text, marker) ==
    {p \in LineStarts(text) :
        /\ Inked(text, p) # {}
        /\ marker # None => ~MarkedAt(text, p, marker)}

IsPrefix(a, b) == Len(a) <= Len(b) /\ SubSeq(b, 1, Len(a)) = a

\* f lies, at some depth, beneath the directory of path d.
Beneath(f, d) == IsPrefix(d \o <<"/">>, f.path)

\* The paths of the sub-directories whose name, lowercased, is ignored.
IgnoredSubDirs ==
    {fs.dirs[i].path : i \in {j \in 1..Len(fs.dirs) : lower(fs.dirs[j].name) \in ignore_dirs}}

\* The same, the target directory included.
IgnoredDirs ==
    IgnoredSubDirs \cup (IF lower(basename(fs.root)) \in ignore_dirs THEN {fs.root} ELSE {})

\* The files the walk is to meet, and those it is to count.
Met == {f \in fs.files : \A d \in IgnoredSubDirs : ~Beneath(f, d)}

NameIgnored(f) == f.name \in ignore_files
ExtensionIgnored(f) == lower(splitext(f.name)[2]) \in ignore_extensions
Recognized(f) == \E d \in LANGUAGE_DEFINITIONS : d.ext = lower(splitext(f.name)[2])
LanguageOf(f) ==
    (CHOOSE d \in LANGUAGE_DEFINITIONS : d.ext = lower(splitext(f.name)[2])).info

Eligible == {f \in Met : ~NameIgnored(f) /\ ~ExtensionIgnored(f) /\ Recognized(f)}

Readable(f) == f.failAt = NoFail

\* The lines of code of a file that was read to its end.
LinesOfCode(f) == Cardinality(CodeLines(f.content, LanguageOf(f)[2]))

\* The files that add to the statistics, and what the statistics of a
\* language are to be.
Contributing == {f \in Eligible : Readable(f) /\ LinesOfCode(f) > 0}

ExpectedLines(language_name) ==
    SumCounts({<<f.path, LinesOfCode(f)>> :
                 f \in {g \in Contributing : LanguageOf(g)[1] = language_name}})

Finished == pc = "exit" /\ isdir(target_dir)

----------------------------------------------------------------------------
\* C1: in every state of analyze_directory, between any two files and in
\* the result, total_loc_overall is the sum of the values of loc_stats.
C1_TotalIsSum == total_loc_overall = SumStats(loc_stats)

\* C1 witness: two languages have contributed, several lines in all.
C1_Witness == pc = "walk" /\ Len(loc_stats) = 2 /\ total_loc_overall >= 4

\* C2 as stated: no file beneath a directory whose lowercased name is in the
\* ignored-directory set is ever visited or counted.
C2_AnyIgnoredDirectory ==
    \A f \in fs.files : \A d \in IgnoredDirs :
        Beneath(f, d) => f.path \notin visited /\ f.path \notin CountedPaths

\* C2 amended: no file beneath a sub-directory of the target whose lowercased
\* name is in the ignored-directory set, at any depth, is ever visited or
\* counted; the name of the target directory itself is never looked at.
C2_IgnoredSubDirectory ==
    \A f \in fs.files : \A d \in IgnoredSubDirs :
        Beneath(f, d) => f.path \notin visited /\ f.path \notin CountedPaths

\* C2 witness: the run has ended, a file two levels below an ignored
\* sub-directory was never visited, and another file was counted.
C2_Witness ==
    /\ Finished
    /\ \E f \in fs.files : \E i \in 1..Len(fs.dirs) :
          /\ fs.dirs[i].path \in IgnoredSubDirs
          /\ Beneath(f, fs.dirs[i].path)
          /\ f.dir # fs.dirs[i].path
          /\ f.path \notin visited
    /\ loc_stats # <<>>

\* C3: a file whose exact name is in the ignored-files set, or whose
\* lowercased extension is in the ignored-extensions set, is never counted,
\* also when the language definitions know its extension.
C3_IgnoredFileNeverCounted ==
    \A f \in fs.files :
        NameIgnored(f) \/ ExtensionIgnored(f) => f.path \notin CountedPaths

\* C3 witness: the loop has reached a file ignored by its name and a file
\* ignored by its extension, both of a known language.
C3_Witness ==
    /\ Finished
    /\ \E f \in fs.files :
          NameIgnored(f) /\ ~ExtensionIgnored(f) /\ Recognized(f) /\ f.path \in visited
    /\ \E f \in fs.files :
          ExtensionIgnored(f) /\ ~NameIgnored(f) /\ Recognized(f) /\ f.path \in visited

\* C4 as stated: with the default ignore sets, a directory holding a.py with
\* three lines of code and a.min.js yields exactly {Python: 3}.
C4_ScenarioB ==
    ( /\ Finished
      /\ ignore_dirs = DEFAULT_IGNORE_DIRS
      /\ ignore_files = DEFAULT_IGNORE_FILES
      /\ ignore_extensions = DEFAULT_IGNORE_EXTENSIONS
      /\ fs.dirs = <<>>
      /\ {f.name : f \in fs.files} =
            {<<"a", ".", "p", "y">>, <<"a", ".", "m", "i", "n", ".", "j", "s">>} )
    => loc_stats = << <<"Python", 3>> >>

\* C5 as stated: a rule excludes every sub-directory whose name, and every
\* file whose extension, differs from it only in letter case, while a file
\* name is excluded only by the very same name.
C5_RulesInAnyCase ==
    /\ \A f \in fs.files : \A i \in 1..Len(fs.dirs) :
          /\ \E rule \in ignore_dirs : lower(rule) = lower(fs.dirs[i].name)
          /\ Beneath(f, fs.dirs[i].path)
          => f.path \notin visited
    /\ \A f \in fs.files :
          (\E rule \in ignore_extensions : lower(rule) = lower(splitext(f.name)[2]))
          => f.path \notin CountedPaths
    /\ \A f \in Met :
          Finished /\ Recognized(f) /\ ~NameIgnored(f) /\ ~ExtensionIgnored(f)
          => f.path \in CountedPaths

\* C6: total_files_processed is the number of files counted so far with a
\* count above zero; loc_stats has a key exactly for the languages of those
\* files, each value is above zero and is the sum of their counts (so a
\* file that counts zero lines changes nothing).
C6_OnlyPositiveCounts ==
    /\ total_files_processed = Cardinality({c \in counted : c[2] > 0})
    /\ \A i \in 1..Len(loc_stats) : loc_stats[i][2] > 0
    /\ \A i, j \in 1..Len(loc_stats) : loc_stats[i][1] = loc_stats[j][1] => i = j
    /\ Languages(loc_stats) =
          {get_language_and_comment_prefix(c[1])[1] : c \in {e \in counted : e[2] > 0}}
    /\ \A i \in 1..Len(loc_stats) :
          loc_stats[i][2] =
             SumCounts({c \in counted :
                          get_language_and_comment_prefix(c[1])[1] = loc_stats[i][1]})

\* C6 witness: a file of a known language counted zero lines, another one
\* counted some, and one file is reported as processed.
C6_Witness ==
    /\ \E c \in counted :
          c[2] = 0 /\ (CHOOSE f \in fs.files : f.path = c[1]).failAt = NoFail
    /\ \E c \in counted : c[2] > 0
    /\ total_files_processed = 1

\* C7: for every file read to its end and every comment marker,
\* count_loc_in_file returns the number of lines that are not blank after
\* trimming and, when there is a marker, do not start with it once trimmed.
C7_CountIsLinesOfCode ==
    pc = "returned" => ret_loc = Cardinality(CodeLines(arg_file, arg_prefix))

\* C7 witness: an indented comment line followed by a line of code.
C7_Witness ==
    /\ pc = "returned"
    /\ arg_file = <<" ", "/", "/", "\n", "x">>
    /\ arg_prefix = <<"/", "/">>
    /\ ret_loc = 1

\* C8: a file that cannot be read counts 0, whatever was counted in it
\* before the failure; the run still ends normally with a report, every
\* file outside the ignored sub-directories has been visited, and the
\* statistics are exactly those of the files that could be read.
C8_ReadFailureIsolated ==
    /\ \A c \in counted :
          ~Readable(CHOOSE f \in fs.files : f.path = c[1]) => c[2] = 0
    /\ Finished =>
          /\ exit_code = <<0>>
          /\ Printed(stdout, "ReportHeader") # {}
          /\ visited = {f.path : f \in Met}
          /\ CountedPaths = {f.path : f \in Eligible}
          /\ Languages(loc_stats) = {LanguageOf(f)[1] : f \in Contributing}
          /\ \A i \in 1..Len(loc_stats) :
                loc_stats[i][2] = ExpectedLines(loc_stats[i][1])
          /\ total_files_processed = Cardinality(Contributing)
          /\ total_loc_overall =
                SumCounts({<<f.path, LinesOfCode(f)>> : f \in Contributing})

\* C8 witness: a file failed after its first line was read, the walk went on
\* to another directory, and the report has lines of other files.
C8_Witness ==
    /\ Finished
    /\ \E f \in fs.files : f.failAt > 0 /\ <<f.path, 0>> \in counted
    /\ \E i \in Printed(stdout, "Warning") : \E j \in Printed(stdout, "Analyzing") : i < j
    /\ loc_stats # <<>>

\* C9 as stated: with a target that is no directory, main prints an error,
\* neither the configuration nor a progress line nor a report, and the
\* process ends with a status other than zero.
C9_InvalidTarget ==
    pc = "exit" /\ ~isdir(target_dir) =>
        /\ Printed(stdout, "Error") # {}
        /\ Printed(stdout, "Configuration") = {}
        /\ Printed(stdout, "Starting") = {}
        /\ Printed(stdout, "Analyzing") = {}
        /\ Printed(stdout, "ReportHeader") = {}
        /\ visited = {}
        /\ exit_code # <<>>
        /\ exit_code # <<0>>

\* C10 as stated: for every file that could not be read there is exactly
\* one warning naming it on standard error, and none on standard output.
C10_WarningOnStderr ==
    /\ \A c \in counted :
          ~Readable(CHOOSE f \in fs.files : f.path = c[1]) =>
              Cardinality({i \in 1..Len(stderr) : stderr[i] = <<"Warning", c[1]>>}) = 1
    /\ Printed(stdout, "Warning") = {}

====
